---------------------------- MODULE Spec2Model ----------------------------
(***************************************************************************)
(* A model of the fluent_libc path utility (src/path.h, src/library.h):    *)
(* get_file_name, the allocating get_real_path, the two buffer-writing     *)
(* variants (get_real_path with buffer_size, get_real_path_buff) and       *)
(* path_join, on both platform families the headers compile for.           *)
(*                                                                         *)
(* A C string is a sequence of one-character strings; the NULL pointer is  *)
(* the value NULL.  The string builder and the OS primitives (realpath,    *)
(* GetFullPathNameA, malloc) live outside the two headers: they are        *)
(* modelled from their contracts, the functions of the headers from their  *)
(* code.                                                                   *)
(***************************************************************************)
EXTENDS Integers, Sequences, FiniteSets, TLC

VARIABLES
    platform,    \* "posix" | "win32": which side of #ifndef _WIN32 was compiled
    cwd,         \* the process's current directory, a sequence of names
    envChanged,  \* the current directory changed since the running call (chain) began
    op,          \* the function being called, "none" when idle
    pc,          \* "idle" | "fill" | "cleanup" | "done"
    args,        \* the path argument(s) of the call
    ret,         \* the returned pointer (char *), NULL when none
    retInt,      \* the returned int of the buffer-writing variants
    sb,          \* the call's string_builder_t and the state of its storage
    events,      \* what the call has done so far: "os", "malloc", "sb_init"
    rp,          \* the locals of the allocating get_real_path
    buffer,      \* the caller's buffer of the buffer-writing variants
    chain,       \* "none" | "reresolve" | "rt_join" | "rt_name": a call fed by the previous result
    saved        \* <<F, D>> of a round trip: the file name it started from, the directory

vars == <<platform, cwd, envChanged, op, pc, args, ret, retInt, sb, events,
          rp, buffer, chain, saved>>

--------------------------------------------------------------------------
(* Bounds of the model *)

MaxLen == 3

MaxJoinLen == 2

MaxDirLen == 1

MaxBuf == 8

--------------------------------------------------------------------------
(* Strings *)

NULL == <<"NULL">>

PosixChars == {"/", ".", "a", "b", "l"}

WinChars == {"\\", "/", ".", "a", "b"}

StringsUpTo(S, n) == UNION {[1..k -> S] : k \in 0..n}

DOT == <<".">>

DOTDOT == <<".", ".">>

\* #define PATH_SEPARATOR
PATH_SEPARATOR == IF platform = "posix" THEN "/" ELSE "\\"

RECURSIVE SegmentsFrom(_, _, _, _)
\* The names between separators, empty ones included: "a//b" is a, "", b.
SegmentsFrom(path, seps, i, cur) ==
    IF i > Len(path) THEN <<cur>>
    ELSE IF path[i] \in seps
         THEN <<cur>> \o SegmentsFrom(path, seps, i + 1, <<>>)
         ELSE SegmentsFrom(path, seps, i + 1, Append(cur, path[i]))

Segments(path, seps) == SegmentsFrom(path, seps, 1, <<>>)

--------------------------------------------------------------------------
(* The string builder (string_builder.h, a dependency) *)

sb_none == [buf |-> <<>>, mem |-> "none", frees |-> 0, uaf |-> FALSE]

init_string_builder == [buf |-> <<>>, mem |-> "live", frees |-> 0, uaf |-> FALSE]

write_char_string_builder(b, c) == [b EXCEPT !.buf = Append(@, c)]

write_string_builder(b, s) == [b EXCEPT !.buf = @ \o s]

reset_string_builder(b) == [b EXCEPT !.buf = <<>>]

\* The builder's own buffer, terminated; the builder keeps holding it.
collect_string_builder_no_copy(b) == b.buf

destroy_string_builder(b) ==
    IF b.mem = "live" THEN [b EXCEPT !.mem = "freed", !.frees = @ + 1] ELSE b

\* A read of the builder's buffer through the pointer collect returned.
ReadCollected(b) == [b EXCEPT !.uaf = @ \/ b.mem = "freed"]


--------------------------------------------------------------------------
(* The POSIX file system the model resolves against, and realpath(3).     *)
(* A node is named by the sequence of names leading to it from the root.  *)
(*   /        directory                                                   *)
(*   /a       directory                                                   *)
(*   /a/b     regular file                                                *)
(*   /l       symbolic link to a                                          *)

ROOT == <<>>

Dirs == {ROOT, << <<"a">> >>}

Files == {<< <<"a">>, <<"b">> >>}

Links == {<< <<"l">> >>}

LinkTarget(node) == << <<"a">> >>

NoNode == << <<"ENOENT">> >>

Parent(node) == IF node = ROOT THEN ROOT ELSE SubSeq(node, 1, Len(node) - 1)

RECURSIVE PosixWalk(_, _, _)
\* Follows the segments from node: every component must exist, "." and ""
\* stay, ".." goes up, a link is followed, nothing is looked up in a file.
PosixWalk(node, segs, i) ==
    IF i > Len(segs) THEN node
    ELSE IF node \in Files THEN NoNode
    ELSE IF segs[i] = <<>> \/ segs[i] = DOT THEN PosixWalk(node, segs, i + 1)
    ELSE IF segs[i] = DOTDOT THEN PosixWalk(Parent(node), segs, i + 1)
    ELSE LET child == Append(node, segs[i]) IN
         IF child \in Dirs \cup Files THEN PosixWalk(child, segs, i + 1)
         ELSE IF child \in Links THEN PosixWalk(LinkTarget(child), segs, i + 1)
         ELSE NoNode

RECURSIVE PosixRender(_, _)
PosixRender(node, i) ==
    IF i > Len(node) THEN <<>>
    ELSE <<"/">> \o node[i] \o PosixRender(node, i + 1)

\* realpath(3): the canonical absolute path of path, NULL when it does not resolve.
realpath(dir, path) ==
    IF path = <<>> THEN NULL
    ELSE LET start == IF path[1] = "/" THEN ROOT ELSE dir
             node  == PosixWalk(start, Segments(path, {"/"}), 1)
         IN IF node = NoNode THEN NULL
            ELSE IF node = ROOT THEN <<"/">>
            ELSE PosixRender(node, 1)

--------------------------------------------------------------------------
(* GetFullPathNameA: lexical, no look-up in the file system.  Both "/" and *)
(* "\" separate; "." and ".." are folded; a trailing separator is kept.    *)
(* The legacy trimming of trailing periods and spaces of a name is outside *)
(* the model: WinModelled says which paths the model covers.               *)

WinSeps == {"/", "\\"}

DRIVE == <<"C", ":">>

HasDrive(path) ==
    Len(path) >= 3 /\ SubSeq(path, 1, 2) = DRIVE /\ path[3] \in WinSeps

WinModelled(path) ==
    \A s \in {Segments(path, WinSeps)[i] : i \in 1..Len(Segments(path, WinSeps))} :
        s \in {DOT, DOTDOT} \/ \A j \in 1..Len(s) : s[j] # "."

RECURSIVE WinWalk(_, _, _)
WinWalk(node, segs, i) ==
    IF i > Len(segs) THEN node
    ELSE IF segs[i] = <<>> \/ segs[i] = DOT THEN WinWalk(node, segs, i + 1)
    ELSE IF segs[i] = DOTDOT THEN WinWalk(Parent(node), segs, i + 1)
    ELSE WinWalk(Append(node, segs[i]), segs, i + 1)

RECURSIVE WinRender(_, _)
WinRender(node, i) ==
    IF i > Len(node) THEN <<>>
    ELSE <<"\\">> \o node[i] \o WinRender(node, i + 1)

\* The full path GetFullPathNameA computes, NULL when it fails.
WinFullPath(dir, path) ==
    IF path = <<>> THEN NULL
    ELSE LET rest  == IF HasDrive(path) THEN SubSeq(path, 3, Len(path)) ELSE path
             start == IF rest[1] \in WinSeps THEN ROOT ELSE dir
             node  == WinWalk(start, Segments(rest, WinSeps), 1)
         IN IF node = ROOT THEN DRIVE \o <<"\\">>
            ELSE DRIVE \o WinRender(node, 1)
                 \o (IF rest[Len(rest)] \in WinSeps THEN <<"\\">> ELSE <<>>)

\* GetFullPathNameA(path, n, buffer, NULL): 0 on failure; the length without
\* the terminator when the path and its terminator fit in n bytes (and only
\* then is the buffer written); else the size needed, terminator included.
GetFullPathNameA(dir, path, n) ==
    LET full == WinFullPath(dir, path) IN
    IF full = NULL THEN [ret |-> 0, wrote |-> FALSE, text |-> <<>>]
    ELSE IF n >= Len(full) + 1 THEN [ret |-> Len(full), wrote |-> TRUE, text |-> full]
    ELSE [ret |-> Len(full) + 1, wrote |-> FALSE, text |-> <<>>]

\* What the host's resolver yields for path, NULL when it does not resolve.
Resolved(path) ==
    IF platform = "posix" THEN realpath(cwd, path) ELSE WinFullPath(cwd, path)

IsAbsolute(s) ==
    IF platform = "posix" THEN Len(s) >= 1 /\ s[1] = "/"
    ELSE Len(s) >= 3 /\ SubSeq(s, 1, 3) = DRIVE \o <<"\\">>

\* What an uninitialised malloc block may hold.
Garbage == {<<>>, <<"?">>}

\* sizeof(char *) of the build.
PointerSizes == {4, 8}

Cwds == {ROOT, << <<"a">> >>}

--------------------------------------------------------------------------
(* The functions of the headers *)

\* Mutant: the validation without its empty-string test.
InvalidPathNullOnly(path) == path = NULL

\* if (!path || path[0] == '\0')
InvalidPath(path) == path = NULL \/ path = <<>>

\* Mutant: the loop body skipping a separator without resetting the builder.
FileNameStepNoReset(b, c) ==
    IF c = PATH_SEPARATOR THEN b ELSE write_char_string_builder(b, c)

\* The body of get_file_name's loop, for the character c.
FileNameStep(b, c) ==
    IF c = PATH_SEPARATOR THEN reset_string_builder(b)
    ELSE write_char_string_builder(b, c)

RECURSIVE FileNameScan(_, _, _)
\* for (size_t i = 0; path[i] != '\0'; i++)
FileNameScan(path, i, b) ==
    IF i > Len(path) THEN b
    ELSE FileNameScan(path, i + 1, FileNameStep(b, path[i]))

\* Mutant: NULL for an empty file name, as the function's comment has it.
FileNameReturnNullWhenEmpty(b) ==
    IF b.buf = <<>> THEN NULL ELSE collect_string_builder_no_copy(b)

\* return collect_string_builder_no_copy(&sb);
FileNameReturn(b) == collect_string_builder_no_copy(b)

\* Mutant: the two paths written with no separator between them.
JoinedPathNoSeparator(path1, path2) ==
    write_string_builder(write_string_builder(init_string_builder, path1), path2)

\* path_join's builder after the three writes.
JoinedPath(path1, path2) ==
    write_string_builder(
        write_char_string_builder(
            write_string_builder(init_string_builder, path1), PATH_SEPARATOR),
        path2)

\* Mutant: the builder destroyed on the successful exit only.
JoinCleanupOnSuccess(b, normalized) ==
    IF normalized = NULL THEN b ELSE destroy_string_builder(b)

\* destroy_string_builder(&sb) before path_join returns normalized.
JoinCleanup(b, normalized) == destroy_string_builder(b)

\* return normalized_path;
JoinReturn(normalized_path, joined_path) == normalized_path

\* Mutant: the filling call given less than the sizing call asked for.
FillCapacityShort(length) == length - 1

\* The capacity get_real_path passes to the filling GetFullPathNameA call.
FillCapacity(length) == length + 1

\* The capacity the buffer-writing variants pass to GetFullPathNameA.
SizedCapacity(buffer_size) == buffer_size

rp_none == [arg |-> NULL, length |-> 0, alloc |-> "none", fill |-> "none", osfail |-> FALSE]

buffer_none == [cap |-> 0, written |-> 0, text |-> <<>>]

\* Where get_real_path returns to.
After(caller) == IF caller = "path_join" THEN "cleanup" ELSE "done"

\* char *get_real_path(path), up to its return or, on Windows, up to the
\* filling call; ev is what the caller has done before.
RealPathEntry(caller, path, ev) ==
    IF InvalidPath(path)
    THEN /\ rp' = [rp_none EXCEPT !.arg = path]
         /\ ret' = NULL
         /\ events' = ev
         /\ pc' = After(caller)
    ELSE IF platform = "posix"
    THEN \E enomem \in BOOLEAN :
           LET r == realpath(cwd, path) IN
           /\ rp' = [rp_none EXCEPT !.arg = path,
                                    !.alloc = IF r = NULL THEN "none"
                                              ELSE IF enomem THEN "failed" ELSE "ok",
                                    !.osfail = (r = NULL)]
           /\ ret' = IF enomem THEN NULL ELSE r
           /\ events' = ev \cup {"os"}
           /\ pc' = After(caller)
    ELSE LET length == GetFullPathNameA(cwd, path, 0).ret IN
         IF length = 0
         THEN /\ rp' = [rp_none EXCEPT !.arg = path, !.osfail = TRUE]
              /\ ret' = NULL
              /\ events' = ev \cup {"os"}
              /\ pc' = After(caller)
         ELSE \E resolved_path \in Garbage \cup {NULL} :
                /\ rp' = [rp_none EXCEPT !.arg = path, !.length = length,
                                         !.alloc = IF resolved_path = NULL
                                                   THEN "failed" ELSE "ok"]
                /\ ret' = resolved_path
                /\ events' = ev \cup {"os", "malloc"}
                /\ pc' = IF resolved_path = NULL THEN After(caller) ELSE "fill"

Start(name, a, ch, sv) ==
    /\ op' = name
    /\ args' = a
    /\ chain' = ch
    /\ saved' = sv
    /\ envChanged' = IF ch = "none" THEN FALSE ELSE envChanged
    /\ UNCHANGED <<platform, cwd>>

\* char *get_file_name(path)
DoFileName(path, ch, sv) ==
    /\ Start("get_file_name", <<path>>, ch, sv)
    /\ IF InvalidPath(path)
       THEN /\ ret' = NULL
            /\ events' = {}
            /\ sb' = sb_none
       ELSE LET b == FileNameScan(path, 1, init_string_builder) IN
            /\ ret' = FileNameReturn(b)
            /\ events' = {"sb_init"}
            /\ sb' = b
    /\ pc' = "done"
    /\ retInt' = 0
    /\ rp' = rp_none
    /\ buffer' = buffer_none

\* char *get_real_path(path)
DoRealPath(path, ch) ==
    /\ Start("get_real_path", <<path>>, ch, <<>>)
    /\ RealPathEntry("get_real_path", path, {})
    /\ sb' = sb_none
    /\ retInt' = 0
    /\ buffer' = buffer_none

\* char *path_join(path1, path2), up to the return of get_real_path's first part
DoPathJoin(path1, path2, ch, sv) ==
    /\ Start("path_join", <<path1, path2>>, ch, sv)
    /\ IF InvalidPath(path1) \/ InvalidPath(path2)
       THEN /\ ret' = NULL
            /\ events' = {}
            /\ sb' = sb_none
            /\ rp' = rp_none
            /\ pc' = "done"
       ELSE LET b == JoinedPath(path1, path2)
                joined_path == collect_string_builder_no_copy(b)
            IN /\ sb' = ReadCollected(b)
               /\ RealPathEntry("path_join", joined_path, {"sb_init"})
    /\ retInt' = 0
    /\ buffer' = buffer_none

\* What one resolution into the caller's buffer does, capacity being what
\* the code hands to GetFullPathNameA (realpath takes no capacity at all).
BufferResolve(path, capacity) ==
    IF platform = "posix"
    THEN LET resolved_path == realpath(cwd, path) IN
         IF resolved_path = NULL
         THEN [retInt |-> 0, written |-> 0, text |-> <<>>]
         ELSE [retInt |-> 1, written |-> Len(resolved_path) + 1, text |-> resolved_path]
    ELSE LET g == GetFullPathNameA(cwd, path, capacity) IN
         [retInt  |-> IF g.ret > 0 /\ g.ret < capacity THEN 1 ELSE 0,
          written |-> IF g.wrote THEN Len(g.text) + 1 ELSE 0,
          text    |-> g.text]

\* The two buffer-writing variants; size is the size of the caller's buffer.
DoBuffer(name, path, size, capacity) ==
    /\ Start(name, <<path>>, "none", <<>>)
    /\ IF InvalidPath(path)
       THEN /\ retInt' = 0
            /\ events' = {}
            /\ buffer' = [buffer_none EXCEPT !.cap = size]
       ELSE LET r == BufferResolve(path, capacity) IN
            /\ retInt' = r.retInt
            /\ events' = {"os"}
            /\ buffer' = [cap |-> size, written |-> r.written, text |-> r.text]
    /\ pc' = "done"
    /\ ret' = NULL
    /\ sb' = sb_none
    /\ rp' = rp_none

--------------------------------------------------------------------------
(* The callers' inputs *)

OsInputs(n) ==
    IF platform = "posix" THEN StringsUpTo(PosixChars, n)
    ELSE {s \in StringsUpTo(WinChars, n) : WinModelled(s)}

NameInputs ==
    StringsUpTo(IF platform = "posix" THEN PosixChars ELSE WinChars, MaxLen)

--------------------------------------------------------------------------
(* Actions *)

Idle == pc = "idle"

\* get_file_name(path)
GetFileName ==
    /\ Idle
    /\ \E path \in NameInputs \cup {NULL} : DoFileName(path, "none", <<>>)

\* get_real_path(path), the allocating one
GetRealPath ==
    /\ Idle
    /\ \E path \in OsInputs(MaxLen) \cup {NULL} : DoRealPath(path, "none")

\* get_real_path's second GetFullPathNameA call and its return (Windows)
RealPathFill ==
    /\ pc = "fill"
    /\ LET g == GetFullPathNameA(cwd, rp.arg, FillCapacity(rp.length)) IN
       /\ ret' = IF g.wrote THEN g.text ELSE ret
       /\ rp' = [rp EXCEPT !.fill = IF g.wrote THEN "ok" ELSE "short",
                           !.osfail = ~g.wrote]
    /\ sb' = IF op = "path_join" THEN ReadCollected(sb) ELSE sb
    /\ pc' = After(op)
    /\ UNCHANGED <<platform, cwd, envChanged, op, args, retInt, events, buffer,
                   chain, saved>>

\* get_real_path(path, buffer, buffer_size) of library.h
GetRealPathSized ==
    /\ Idle
    /\ \E path \in OsInputs(MaxLen) \cup {NULL}, buffer_size \in 0..MaxBuf :
         DoBuffer("get_real_path_sized", path, buffer_size, SizedCapacity(buffer_size))

\* get_real_path_buff(path, buffer) of path.h, buffer being char buffer[size]
GetRealPathBuff ==
    /\ Idle
    /\ \E path \in OsInputs(MaxLen) \cup {NULL}, size \in 1..MaxBuf,
          buf_size \in PointerSizes :
         DoBuffer("get_real_path_buff", path, size, buf_size)

\* path_join(path1, path2)
PathJoin ==
    /\ Idle
    /\ \E path1 \in OsInputs(MaxJoinLen) \cup {NULL},
          path2 \in OsInputs(MaxJoinLen) \cup {NULL} :
         DoPathJoin(path1, path2, "none", <<>>)

\* path_join after get_real_path returned: destroy the builder, return
JoinEnd ==
    /\ pc = "cleanup"
    /\ sb' = JoinCleanup(sb, ret)
    /\ ret' = JoinReturn(ret, rp.arg)
    /\ pc' = "done"
    /\ UNCHANGED <<platform, cwd, envChanged, op, args, retInt, events, rp,
                   buffer, chain, saved>>

\* get_real_path(get_real_path(P))
ChainReresolve ==
    /\ pc = "done" /\ op = "get_real_path" /\ chain = "none"
    /\ ret # NULL
    /\ DoRealPath(ret, "reresolve")

\* path_join(D, get_file_name(P))
ChainJoin ==
    /\ pc = "done" /\ op = "get_file_name" /\ chain = "none"
    /\ ret # NULL
    /\ platform = "win32" => WinModelled(ret)
    /\ \E dir \in OsInputs(MaxDirLen) : DoPathJoin(dir, ret, "rt_join", <<ret, dir>>)

\* get_file_name(path_join(D, F))
ChainFileName ==
    /\ pc = "done" /\ op = "path_join" /\ chain = "rt_join"
    /\ ret # NULL
    /\ DoFileName(ret, "rt_name", saved)

\* Another thread of the process changes the current directory.  Every
\* other step reads the directory at most once, so a change before or after
\* it is a call made in the other directory: the change is taken between
\* calls and between get_real_path's two GetFullPathNameA calls.
Chdir ==
    /\ pc \in {"idle", "fill"}
    /\ \E dir \in Cwds \ {cwd} : cwd' = dir
    /\ envChanged' = (pc # "idle")
    /\ UNCHANGED <<platform, op, pc, args, ret, retInt, sb, events, rp, buffer,
                   chain, saved>>

\* The caller is done with the result.
Return ==
    /\ pc = "done"
    /\ pc' = "idle"
    /\ op' = "none"
    /\ args' = <<>>
    /\ ret' = NULL
    /\ retInt' = 0
    /\ sb' = sb_none
    /\ events' = {}
    /\ rp' = rp_none
    /\ buffer' = buffer_none
    /\ chain' = "none"
    /\ saved' = <<>>
    /\ envChanged' = FALSE
    /\ UNCHANGED <<platform, cwd>>

Init ==
    /\ platform \in {"posix", "win32"}
    /\ cwd \in Cwds
    /\ envChanged = FALSE
    /\ op = "none"
    /\ pc = "idle"
    /\ args = <<>>
    /\ ret = NULL
    /\ retInt = 0
    /\ sb = sb_none
    /\ events = {}
    /\ rp = rp_none
    /\ buffer = buffer_none
    /\ chain = "none"
    /\ saved = <<>>

Next ==
    \/ GetFileName
    \/ GetRealPath
    \/ RealPathFill
    \/ GetRealPathSized
    \/ GetRealPathBuff
    \/ PathJoin
    \/ JoinEnd
    \/ ChainReresolve
    \/ ChainJoin
    \/ ChainFileName
    \/ Chdir
    \/ Return

Spec == Init /\ [][Next]_vars

--------------------------------------------------------------------------
(* Properties *)

Done(name) == pc = "done" /\ op = name

NullOrEmpty(p) == p = NULL \/ Len(p) = 0

Quiet == ~envChanged

\* The index of the last separator of path, 0 when it has none.
LastSeparator(path) ==
    LET at == {i \in 1..Len(path) : path[i] = PATH_SEPARATOR} IN
    IF at = {} THEN 0 ELSE CHOOSE i \in at : \A j \in at : j <= i

AfterLastSeparator(path) == SubSeq(path, LastSeparator(path) + 1, Len(path))

Concatenation == args[1] \o <<PATH_SEPARATOR>> \o args[2]

C3_InvalidRejectedFirst ==
    (op # "none" /\ \E i \in 1..Len(args) : NullOrEmpty(args[i])) =>
        /\ pc = "done"
        /\ ret = NULL
        /\ retInt = 0
        /\ events = {}
        /\ sb = sb_none
        /\ rp.alloc = "none"
        /\ buffer.written = 0

C3_Witness ==
    /\ Done("path_join")
    /\ ~NullOrEmpty(args[1])
    /\ args[2] = <<>>
    /\ ret = NULL
    /\ events = {}

\* C4: for valid arguments path_join hands path1 + separator + path2 to the
\* allocating get_real_path and returns what that returns: the resolved
\* path when the concatenation resolves (and the allocation succeeds), NULL
\* when it does not.
C4_JoinIsResolveOfConcatenation ==
    (op = "path_join" /\ pc \in {"cleanup", "done"}
        /\ ~NullOrEmpty(args[1]) /\ ~NullOrEmpty(args[2])) =>
        /\ rp.arg = Concatenation
        /\ Quiet => ret = (IF rp.alloc = "failed" THEN NULL
                           ELSE Resolved(Concatenation))

C4_Witness ==
    /\ Done("path_join")
    /\ Quiet
    /\ ret # NULL
    /\ ret # Concatenation
    /\ ret = Resolved(Concatenation)

Needed(path) == Len(Resolved(path)) + 1

\* C6: on both platform families get_real_path(path, buffer, buffer_size)
\* returns 0 when buffer_size is one byte short of the resolved path and its
\* terminator, never writes more than buffer_size bytes, and returns 1 only
\* with the whole terminated resolved path in the buffer.
C6_SizedRespectsCapacity ==
    (Done("get_real_path_sized") /\ Quiet /\ ~NullOrEmpty(args[1])) =>
        /\ buffer.written <= buffer.cap
        /\ (Resolved(args[1]) # NULL /\ buffer.cap = Needed(args[1]) - 1)
               => retInt = 0
        /\ retInt = 1 =>
               /\ Resolved(args[1]) # NULL
               /\ buffer.text = Resolved(args[1])
               /\ buffer.written = Needed(args[1])

\* C7: the allocating get_real_path returns NULL whenever a call it makes to
\* the OS primitive fails (the filling GetFullPathNameA call included) or
\* the allocation fails.
C7_NullOnEveryFailure ==
    (op \in {"get_real_path", "path_join"} /\ pc \in {"cleanup", "done"}) =>
        ((rp.osfail \/ rp.alloc = "failed") => ret = NULL)

\* C8 as stated: for every non-empty path P that exists, get_real_path(P)
\* returns an absolute path R, and get_real_path(R) returns R.
C8_ResolvesEveryExistingPath ==
    (Done("get_real_path") /\ Quiet /\ ~NullOrEmpty(args[1])) =>
        /\ (chain = "none" /\ Resolved(args[1]) # NULL)
               => (ret # NULL /\ IsAbsolute(ret))
        /\ chain = "reresolve" => ret = args[1]

\* C8, amended: with the environment unchanged and no allocation failing,
\* get_real_path(P) of a path P that resolves is the absolute resolved path
\* R, and get_real_path(R) returns a string equal to R.
C8_ResolutionIsIdempotent ==
    (Done("get_real_path") /\ Quiet /\ ~NullOrEmpty(args[1])
        /\ rp.alloc # "failed") =>
        /\ (chain = "none" /\ Resolved(args[1]) # NULL)
               => (ret # NULL /\ IsAbsolute(ret) /\ ret = Resolved(args[1]))
        /\ chain = "reresolve" => (ret = args[1] /\ IsAbsolute(ret))

C8_Witness ==
    /\ Done("get_real_path")
    /\ Quiet
    /\ chain = "reresolve"
    /\ rp.alloc = "ok"
    /\ ret = args[1]
    /\ Len(ret) > 1

\* The path the round trip's path_join resolved was a symbolic link (POSIX).
JoinedLink(dir, name) ==
    LET path   == dir \o <<"/">> \o name
        segs   == Segments(path, {"/"})
        start  == IF path[1] = "/" THEN ROOT ELSE cwd
        parent == PosixWalk(start, SubSeq(segs, 1, Len(segs) - 1), 1)
    IN parent # NoNode /\ Append(parent, segs[Len(segs)]) \in Links

\* A name the resolver leaves as the last component of the joined path.
OrdinaryName(dir, name) ==
    /\ name \notin {DOT, DOTDOT}
    /\ IF platform = "posix" THEN ~JoinedLink(dir, name)
       ELSE \A i \in 1..Len(name) : name[i] # "/"

\* C9 as stated: with F = get_file_name(P) and path_join(D, F) succeeding,
\* get_file_name(path_join(D, F)) equals F.
C9_RoundTrip ==
    (Done("get_file_name") /\ chain = "rt_name" /\ Quiet) => ret = saved[1]

\* C9, amended: the round trip gives F back when F is neither "." nor "..",
\* D/F is not a symbolic link and, on Windows, F holds no "/" (and no
\* trailing period or space): the names the resolver does not rewrite.
C9_RoundTripOfOrdinaryName ==
    (Done("get_file_name") /\ chain = "rt_name" /\ Quiet
        /\ OrdinaryName(saved[2], saved[1])) => ret = saved[1]

C9_Witness ==
    /\ Done("get_file_name")
    /\ chain = "rt_name"
    /\ Quiet
    /\ OrdinaryName(saved[2], saved[1])
    /\ ret = saved[1]
    /\ Len(args[1]) > Len(ret) + 1

\* C10: on Windows get_real_path_buff(path, buffer) with char buffer[N]
\* uses N as the capacity: it returns 1 exactly when the resolved path's
\* length is non-zero and less than N.
C10_BuffUsesArraySize ==
    (Done("get_real_path_buff") /\ platform = "win32" /\ Quiet
        /\ ~NullOrEmpty(args[1])) =>
        /\ retInt = 1 <=> (Resolved(args[1]) # NULL
                           /\ Len(Resolved(args[1])) > 0
                           /\ Len(Resolved(args[1])) < buffer.cap)
        /\ buffer.written <= buffer.cap
============================================================================
